---- MODULE Spec2Model ----
(***************************************************************************)
(* A model of the decision logic of the MySQL observability tool:          *)
(*   - MySQLObservabilityTool (p3cli.py): the metrics history and its      *)
(*     JSON snapshot, the StandardScaler / IsolationForest pipeline;       *)
(*   - QueryAnalyzer (query_analyzer.py): severity, issue categories.      *)
(*                                                                         *)
(* Numbers.  Metric values are non-negative numbers; the model keeps them  *)
(* as small naturals.  For a demo sample the unit is a tenth of the        *)
(* metric's base value, so base * (1 + variation), variation in            *)
(* [-0.1, 0.1], is one of 9, 10, 11.  Execution times are in tenths of a   *)
(* second (2.0 s is 20).                                                   *)
(***************************************************************************)
EXTENDS Integers, Sequences, FiniteSets, TLC

VARIABLES
    config,           \* tool.config: the "ml" and "metrics" sections
    metrics_file,     \* metrics_history.json on disk
    metrics_history,  \* tool.metrics_history
    scaler,           \* tool.scaler (StandardScaler)
    model,            \* tool.model (None or an IsolationForest)
    current_metrics,  \* main's current_metrics: the last collected sample
    ret,              \* what the last call returned or raised
    session,          \* "running", or "crashed" after an uncaught exception
    clock,            \* datetime.now().timestamp(), a counter
    appended,         \* history: loaded history followed by every sample saved since
    fit_columns,      \* history: numeric_columns of the last fit that reached the scaler
    query_data,       \* the QueryRecord handed to analyze_query_performance
    analysis,         \* the AnalysisResult it returned
    analyses,         \* the list of AnalysisResults of a report (p3cli.py line 377)
    summary,          \* what generate_query_summary returned for it
    recent_analysis,  \* the file recent_analysis.json
    training,         \* where a train_anomaly_model call in progress stands
    run               \* where the current run of main stands, and its arguments

vars == <<config, metrics_file, metrics_history, scaler, model, current_metrics,
          ret, session, clock, appended, fit_columns, query_data, analysis, analyses,
          summary, recent_analysis, training, run>>

toolVars == <<config, metrics_file, metrics_history, scaler, model, current_metrics,
              ret, session, clock, appended, fit_columns, training, run>>

queryVars == <<query_data, analysis, analyses, summary, recent_analysis>>

stepVars == <<training, run>>

(***************************************************************************)
(* Bounds of the model.                                                    *)
(***************************************************************************)
\* samples collected in one run of the model
MaxCollect == 2
\* sessions (runs of main) in one run of the model
MaxSessions == 2
\* the scaled values are kept to this many standard deviations
ZCap == 12

(***************************************************************************)
(* Sequences and dicts.  A Python dict is the sequence of its <<key,      *)
(* value>> items in insertion order.                                       *)
(***************************************************************************)
Range(s) == {s[i] : i \in 1..Len(s)}

Last(s) == s[Len(s)]

\* s[-n:] for n > 0
Tail_n(s, n) == IF Len(s) <= n THEN s ELSE SubSeq(s, Len(s) - n + 1, Len(s))

Keys(d) == [i \in 1..Len(d) |-> d[i][1]]

KeySet(d) == {d[i][1] : i \in 1..Len(d)}

HasKey(d, k) == \E i \in 1..Len(d) : d[i][1] = k

Get(d, k) == d[CHOOSE i \in 1..Len(d) : d[i][1] = k][2]

\* sum of f[lo..hi], halving the range
RECURSIVE SumRange(_, _, _)
SumRange(f, lo, hi) ==
    IF lo > hi THEN 0
    ELSE IF lo = hi THEN f[lo]
    ELSE LET mid == (lo + hi) \div 2
         IN  SumRange(f, lo, mid) + SumRange(f, mid + 1, hi)

SeqSum(s) == SumRange(s, 1, Len(s))

Abs(x) == IF x < 0 THEN -x ELSE x

\* the sequence s with its elements evaluated once
Eval(s) == SubSeq(s, 1, Len(s))

\* F(e), with e evaluated once
With(e, F(_)) == CHOOSE r \in {F(x) : x \in {e}} : TRUE

(***************************************************************************)
(* Configuration (_load_config) and the samples collect_metrics returns.   *)
(***************************************************************************)
\* default_config["metrics"]["enabled"]
DefaultEnabled ==
    <<"Questions", "Threads_connected", "Threads_running", "Slow_queries",
      "Innodb_buffer_pool_size", "Innodb_buffer_pool_pages_data",
      "Innodb_buffer_pool_pages_free", "Connections", "Uptime">>

\* the keys of base_metrics in _generate_demo_metrics
DemoNames ==
    <<"Questions", "Threads_connected", "Threads_running", "Slow_queries",
      "Innodb_buffer_pool_size", "Innodb_buffer_pool_pages_data",
      "Innodb_buffer_pool_pages_free", "Connections", "Uptime">>

\* config.json is the user's: other "enabled" lists a config file may hold
RenamedEnabled == [DefaultEnabled EXCEPT ![9] = "Aborted_clients"]

ShorterEnabled == SubSeq(DefaultEnabled, 1, 8)

SwappedEnabled == [DefaultEnabled EXCEPT ![1] = "Threads_connected", ![2] = "Questions"]

EnabledChoices == {DefaultEnabled, RenamedEnabled, ShorterEnabled, SwappedEnabled}

\* default_config["ml"]: contamination 0.1 = ContaminationNum / ContaminationDen
ContaminationNum == 1

ContaminationDen == 10

RandomState == 42

DefaultMinSamples == 10

Config(m, enabled) ==
    [min_samples_for_training |-> m, enabled |-> enabled,
     contamination |-> <<ContaminationNum, ContaminationDen>>,
     random_state |-> RandomState]

\* base_value * (1 + variation) for variation in {-0.1, 0, 0.1}, one value a metric
DemoReadings == { <<11, 9, 10, 11, 9, 10, 11, 9, 10>> }

\* float(result[1]), or 0.0 when the status value is not all digits
LiveReadings ==
    { <<10, 10, 10, 10, 10, 10, 10, 10, 10>>,
      <<30, 9, 0, 11, 9, 10, 11, 9, 12>> }

\* the dict a collection builds: one item a metric name, then 'timestamp'
Sample(names, reading, ts) ==
    [i \in 1..(Len(names) + 1) |->
        IF i <= Len(names) THEN <<names[i], reading[i]>> ELSE <<"timestamp", ts>>]

_generate_demo_metrics(reading, ts) == Sample(DemoNames, reading, ts)

\* collect_metrics: {} when the connection fails
collect_metrics(demo_mode, connected, reading, ts) ==
    IF demo_mode THEN _generate_demo_metrics(reading, ts)
    ELSE IF ~connected THEN <<>>
    ELSE Sample(config.enabled, reading, ts)

(***************************************************************************)
(* json.dump / json.load of metrics_history.json.  A document is a tree   *)
(* of <<"array", items>>, <<"object", members>>, <<"number", n>>; a file   *)
(* that does not parse is <<"garbage">>.                                   *)
(***************************************************************************)
JsonNumber(n) == <<"number", n>>

JsonObject(d) == <<"object", [j \in 1..Len(d) |-> <<d[j][1], JsonNumber(d[j][2])>>]>>

json_dump(history) == <<"array", [i \in 1..Len(history) |-> JsonObject(history[i])]>>

Garbage == <<"garbage">>

JsonParses(doc) == doc[1] # "garbage"

PyDict(obj) == [j \in 1..Len(obj[2]) |-> <<obj[2][j][1], obj[2][j][2][2]>>]

json_load(doc) == [i \in 1..Len(doc[2]) |-> PyDict(doc[2][i])]

\* metrics_history.json: absent, or holding a document
NoFile == [exists |-> FALSE, doc |-> Garbage]

FileOf(doc) == [exists |-> TRUE, doc |-> doc]

(***************************************************************************)
(* save_metrics and load_metrics_history.                                  *)
(***************************************************************************)
HistoryCap == 1000

\* a trim that keeps the head of the list (history[:1000])
AppendTrimKeepsHead(history, metrics) ==
    LET h == Append(history, metrics)
    IN  IF Len(h) > HistoryCap THEN SubSeq(h, 1, HistoryCap) ELSE h

\* lines 236-239: append, then keep the last HistoryCap entries
AppendTrim(history, metrics) ==
    LET h == Append(history, metrics)
    IN  IF Len(h) > HistoryCap THEN Tail_n(h, HistoryCap) ELSE h

\* a save that dumps the list before trimming it
save_metrics_dump_first(metrics) ==
    [history |-> AppendTrim(metrics_history, metrics),
     file |-> FileOf(json_dump(Append(metrics_history, metrics)))]

\* save_metrics: the new history, and the file json.dump leaves (opened with 'w')
save_metrics(metrics) ==
    With(AppendTrim(metrics_history, metrics), LAMBDA h :
        [history |-> h, file |-> FileOf(json_dump(h))])

\* load_metrics_history: [] without a file; json.load raises on a file that
\* does not parse
load_metrics_history ==
    IF metrics_file.exists
    THEN IF JsonParses(metrics_file.doc)
         THEN [outcome |-> "return", value |-> json_load(metrics_file.doc)]
         ELSE [outcome |-> "raise", value |-> <<>>]
    ELSE [outcome |-> "return", value |-> <<>>]

(***************************************************************************)
(* pd.DataFrame(metrics_data): the columns are the keys of the dicts in    *)
(* order of first appearance; a dict without a column's key gives NaN.     *)
(***************************************************************************)
NaN == -1

\* the keys of a, then the keys of b that a does not have
MergeColumns(a, b) == a \o SelectSeq(b, LAMBDA k : k \notin Range(a))

\* the columns of metrics_data[lo..hi], halving the range
RECURSIVE ColumnsOf(_, _, _)
ColumnsOf(metrics_data, lo, hi) ==
    IF lo > hi THEN <<>>
    ELSE IF lo = hi THEN Eval(Keys(metrics_data[lo]))
    ELSE LET mid == (lo + hi) \div 2
         IN  MergeColumns(ColumnsOf(metrics_data, lo, mid),
                          ColumnsOf(metrics_data, mid + 1, hi))

DataFrameColumns(metrics_data) == ColumnsOf(metrics_data, 1, Len(metrics_data))

\* numeric_columns = [col for col in ... if col != 'timestamp']
NumericColumns(cols) == SelectSeq(cols, LAMBDA c : c # "timestamp")

\* df[numeric_columns].values, row i
Row(metrics_data, columns, i) ==
    Eval([c \in 1..Len(columns) |->
            IF HasKey(metrics_data[i], columns[c]) THEN Get(metrics_data[i], columns[c])
            ELSE NaN])

Matrix(metrics_data, columns) ==
    Eval([i \in 1..Len(metrics_data) |-> Row(metrics_data, columns, i)])

HasNaN(X) == \E i \in 1..Len(X) : \E c \in 1..Len(X[i]) : X[i][c] = NaN

(***************************************************************************)
(* StandardScaler.  The parameters are kept exactly, as the count, the sum *)
(* and the sum of squares of each column (NaN cells are skipped, as        *)
(* sklearn's nan-aware mean and variance do): mean = sum / count,          *)
(* var = (count * sumsq - sum^2) / count^2.  A scaled value is kept as its *)
(* whole number of standard deviations, to at most ZCap.                   *)
(***************************************************************************)
UnfittedScaler == [fitted |-> FALSE, n_features_in |-> 0, stats |-> <<>>]

ColumnStats(X, c) ==
    LET n  == Len(X)
        ok == [i \in 1..n |-> IF X[i][c] = NaN THEN 0 ELSE 1]
        v  == [i \in 1..n |-> IF X[i][c] = NaN THEN 0 ELSE X[i][c]]
        sq == [i \in 1..n |-> v[i] * v[i]]
    IN  [count |-> SeqSum(ok), sum |-> SeqSum(v), sumsq |-> SeqSum(sq)]

\* scaler.partial_fit(X): the statistics of X added to those already held
ScalerPartialFit(X) ==
    IF scaler.fitted /\ scaler.n_features_in = Len(X[1])
    THEN [fitted |-> TRUE, n_features_in |-> Len(X[1]),
          stats |-> Eval([c \in 1..Len(X[1]) |->
                            [count |-> scaler.stats[c].count + ColumnStats(X, c).count,
                             sum   |-> scaler.stats[c].sum + ColumnStats(X, c).sum,
                             sumsq |-> scaler.stats[c].sumsq + ColumnStats(X, c).sumsq]])]
    ELSE [fitted |-> TRUE, n_features_in |-> Len(X[1]),
          stats |-> Eval([c \in 1..Len(X[1]) |-> ColumnStats(X, c)])]

\* scaler.fit(X)
ScalerFit(X) ==
    [fitted |-> TRUE, n_features_in |-> Len(X[1]),
     stats |-> Eval([c \in 1..Len(X[1]) |-> ColumnStats(X, c)])]

\* the whole part of the square root of q, to at most ZCap
CappedRoot(q) ==
    CHOOSE k \in 0..ZCap : k * k <= q /\ (k = ZCap \/ (k + 1) * (k + 1) > q)

\* (x - mean) / scale for one cell; scale is 1 where the variance is 0
ZScore(st, x) ==
    LET num == st.count * x - st.sum
        var == st.count * st.sumsq - st.sum * st.sum
        den == IF var = 0 THEN st.count * st.count ELSE var
    IN  With((num * num) \div den, LAMBDA q :
            IF num < 0 THEN -CappedRoot(q) ELSE CappedRoot(q))

\* scaler.transform(x) for a row with the fitted number of features
ScalerTransform(sc, x) == Eval([c \in 1..Len(x) |-> ZScore(sc.stats[c], x[c])])

(***************************************************************************)
(* IsolationForest.  sklearn's forest is not part of the repository; the   *)
(* model keeps what the tool relies on: score_samples is a fixed function  *)
(* of the fitted forest and the scaled row that falls as the row moves     *)
(* away from the training centre, offset_ is the contamination percentile  *)
(* of the training rows' scores (numpy's linear interpolation, kept exact  *)
(* by scaling every score by ContaminationDen), decision_function is       *)
(* score_samples - offset_, and predict is -1 exactly below 0.             *)
(***************************************************************************)
NoModel ==
    [is_none |-> TRUE, fitted |-> FALSE, n_features_in |-> 0, offset |-> 0,
     contamination |-> <<0, 1>>, random_state |-> 0]

\* IsolationForest(contamination=..., random_state=...), not fitted yet
NewForest(cfg) ==
    [is_none |-> FALSE, fitted |-> FALSE, n_features_in |-> 0, offset |-> 0,
     contamination |-> cfg.contamination, random_state |-> cfg.random_state]

score_samples(z) == -SeqSum([c \in 1..Len(z) |-> Abs(z[c])])

\* the j-th smallest of the scores, j counted from 0
KthSmallest(scores, j) ==
    CHOOSE v \in Range(scores) :
        /\ Cardinality({i \in 1..Len(scores) : scores[i] < v}) <= j
        /\ Cardinality({i \in 1..Len(scores) : scores[i] <= v}) >= j + 1

\* np.percentile(scores, 100 * num / den), times den
Percentile(scores, num, den) ==
    LET pos == (Len(scores) - 1) * num
        lo  == pos \div den
        rem == pos % den
        a   == KthSmallest(scores, lo)
        b   == IF rem = 0 THEN a ELSE KthSmallest(scores, lo + 1)
    IN  den * a + rem * (b - a)

\* model.fit(X_scaled)
ForestFit(forest, Z) ==
    With(Eval([i \in 1..Len(Z) |-> score_samples(Z[i])]), LAMBDA scores :
        [forest EXCEPT !.fitted = TRUE, !.n_features_in = Len(Z[1]),
                       !.offset = Percentile(scores, forest.contamination[1],
                                             forest.contamination[2])])

\* model.decision_function(z), times the contamination's denominator
decision_function(forest, z) == forest.contamination[2] * score_samples(z) - forest.offset

\* a predict that also flags a row on the threshold
predict_at_or_below(forest, z) == IF decision_function(forest, z) <= 0 THEN -1 ELSE 1

\* model.predict(z)
predict(forest, z) == IF decision_function(forest, z) < 0 THEN -1 ELSE 1

(***************************************************************************)
(* train_anomaly_model and detect_anomalies, as functions of the tool's    *)
(* state: what they leave in scaler and model, and what they return.       *)
(***************************************************************************)
\* lines 206-212, for a batch with columns: what is left in scaler and model
FitPipeline(X, columns) ==
    With(ScalerFit(X), LAMBDA fitted :
        IF HasNaN(X)
        \* the scaler skips NaN; IsolationForest.fit rejects it, after line 208
        \* has bound self.model to the new forest
        THEN [outcome |-> "raise", scaler |-> fitted, model |-> NewForest(config),
              columns |-> columns]
        ELSE [outcome |-> "trained", scaler |-> fitted,
              model |-> ForestFit(NewForest(config),
                                  Eval([i \in 1..Len(X) |-> ScalerTransform(fitted, X[i])])),
              columns |-> columns])

\* a guard that lets a batch one sample short through
train_one_short(metrics_data) ==
    IF Len(metrics_data) < config.min_samples_for_training - 1
    THEN [outcome |-> "not_enough_data", scaler |-> scaler, model |-> model,
          columns |-> fit_columns]
    ELSE With(NumericColumns(DataFrameColumns(metrics_data)), LAMBDA columns :
             With(Matrix(metrics_data, columns), LAMBDA X : FitPipeline(X, columns)))

train_anomaly_model(metrics_data) ==
    IF Len(metrics_data) < config.min_samples_for_training
    THEN [outcome |-> "not_enough_data", scaler |-> scaler, model |-> model,
          columns |-> fit_columns]
    ELSE With(NumericColumns(DataFrameColumns(metrics_data)), LAMBDA columns :
             IF Len(columns) = 0
             \* fit_transform resets the scaler, then rejects an array without features
             THEN [outcome |-> "raise", scaler |-> UnfittedScaler, model |-> model,
                   columns |-> <<>>]
             ELSE With(Matrix(metrics_data, columns), LAMBDA X : FitPipeline(X, columns)))

Verdict(is_anomaly, score) ==
    [outcome |-> "return", is_anomaly |-> is_anomaly, score |-> score]

Raised == [outcome |-> "raise", is_anomaly |-> FALSE, score |-> 0]

\* the score is decision_function's, times the contamination's denominator
detect_anomalies(metrics) ==
    IF model.is_none
    THEN Verdict(FALSE, 0)
    ELSE LET numeric_columns == NumericColumns(Keys(metrics))
             current_values  == [c \in 1..Len(numeric_columns) |->
                                     Get(metrics, numeric_columns[c])]
         IN  IF ~scaler.fitted \/ Len(current_values) # scaler.n_features_in
             \* scaler.transform: not fitted, or a row of another width
             THEN Raised
             ELSE IF ~model.fitted
             \* model.predict on a forest that was never fitted
             THEN Raised
             ELSE LET z == ScalerTransform(scaler, current_values)
                  IN  Verdict(predict(model, z) = -1, decision_function(model, z))

(***************************************************************************)
(* The state before the first session: a configuration, and whatever       *)
(* earlier sessions left in metrics_history.json.                          *)
(***************************************************************************)
BaseReading == <<10, 10, 10, 10, 10, 10, 10, 10, 10>>

VariedReading == <<11, 9, 10, 11, 9, 10, 11, 9, 10>>

\* a history of n samples collected before time 0
PriorHistory(n, names) ==
    [i \in 1..n |->
        Sample(names, IF i % 2 = 0 THEN BaseReading ELSE VariedReading, i - n)]

NearCapLengths == {HistoryCap - 1, HistoryCap}

NoReturn == [op |-> "none", outcome |-> "none", is_anomaly |-> FALSE, score |-> 0,
             value |-> <<>>, batch |-> 0]

NoQuery == [id |-> 0, query |-> <<>>, execution_time |-> 0, rows_examined |-> 0,
            rows_sent |-> 0, missing |-> {}]

NoAnalysis == [done |-> FALSE, raised |-> FALSE]

NoSummary == [done |-> FALSE, raised |-> FALSE]

NoSnapshot == [exists |-> FALSE]

\* no train_anomaly_model call in progress
NotTraining == [pc |-> "idle"]

\* no run of main in progress
NoRun ==
    [pc |-> "none", args |-> {}, connected |-> FALSE, reading |-> <<>>, i |-> 0,
     saves |-> 0, trained |-> FALSE, scored |-> FALSE, message |-> FALSE, batch |-> <<>>]

SnapshotOf(data) == [exists |-> TRUE, data |-> data]

InitWith(cfgs, files) ==
    /\ config \in cfgs
    /\ metrics_file \in files
    /\ metrics_history = <<>>
    /\ scaler = UnfittedScaler
    /\ model = NoModel
    /\ current_metrics = <<>>
    /\ ret = NoReturn
    /\ session = [number |-> 0, status |-> "none"]
    /\ clock = 0
    /\ appended = <<>>
    /\ fit_columns = <<>>
    /\ query_data = NoQuery
    /\ analysis = NoAnalysis
    /\ analyses = <<>>
    /\ summary = NoSummary
    /\ recent_analysis = NoSnapshot
    /\ training = NotTraining
    /\ run = NoRun

\* a small min_samples_for_training with every "enabled" list, and the default
\* one over a history one sample short of it
Init ==
    \/ InitWith({Config(2, e) : e \in EnabledChoices},
                {NoFile, FileOf(Garbage), FileOf(json_dump(PriorHistory(1, DemoNames)))})
    \/ InitWith({Config(DefaultMinSamples, DefaultEnabled)},
                {FileOf(json_dump(PriorHistory(DefaultMinSamples - 1, names))) :
                    names \in {DemoNames, RenamedEnabled}})

(***************************************************************************)
(* The operations.                                                         *)
(***************************************************************************)
Returned(op, r) ==
    [NoReturn EXCEPT !.op = op, !.outcome = r.outcome, !.value = r.value]

\* main, lines 507-509: a new tool, then tool.metrics_history = load_metrics_history()
NewSession ==
    /\ session.number < MaxSessions
    /\ \E r \in {load_metrics_history} :
           /\ ret' = Returned("load", r)
           /\ metrics_history' = r.value
           /\ appended' = r.value
           /\ session' = [number |-> session.number + 1,
                          status |-> IF r.outcome = "raise" THEN "crashed" ELSE "running"]
    /\ scaler' = UnfittedScaler
    /\ model' = NoModel
    /\ current_metrics' = <<>>
    /\ fit_columns' = <<>>
    /\ UNCHANGED <<config, metrics_file, clock, queryVars, stepVars>>

\* main, lines 515-516: --show-history loads the file again
LoadMetricsHistory ==
    /\ session.status = "running"
    /\ \E r \in {load_metrics_history} :
           /\ ret' = Returned("load", r)
           /\ session' = [session EXCEPT
                              !.status = IF r.outcome = "raise" THEN "crashed" ELSE @]
    /\ UNCHANGED <<config, metrics_file, metrics_history, scaler, model, current_metrics,
                   clock, appended, fit_columns, queryVars, stepVars>>

\* main, lines 553-560: collect_metrics(), and in demo mode when that gave nothing
CollectMetrics ==
    /\ session.status = "running"
    /\ clock < MaxCollect
    /\ clock' = clock + 1
    /\ \E connected \in BOOLEAN :
       \E reading \in IF connected THEN LiveReadings ELSE DemoReadings :
          LET live == collect_metrics(FALSE, connected, reading, clock')
          IN  current_metrics' =
                  IF live = <<>> THEN collect_metrics(TRUE, connected, reading, clock')
                  ELSE live
    /\ ret' = [NoReturn EXCEPT !.op = "collect", !.outcome = "return"]
    /\ UNCHANGED <<config, metrics_file, metrics_history, scaler, model, session,
                   appended, fit_columns, queryVars, stepVars>>

Saved(metrics) == appended # <<>> /\ Last(appended) = metrics

\* save_metrics(current_metrics), once for a collected sample (line 562)
SaveMetrics ==
    /\ session.status = "running"
    /\ current_metrics # <<>>
    /\ ~Saved(current_metrics)
    /\ \E r \in {save_metrics(current_metrics)} :
           /\ metrics_history' = r.history
           /\ metrics_file' = r.file
    /\ appended' = Append(appended, current_metrics)
    /\ ret' = [NoReturn EXCEPT !.op = "save", !.outcome = "return"]
    /\ UNCHANGED <<config, scaler, model, current_metrics, session, clock,
                   fit_columns, queryVars, stepVars>>

\* the batches a caller trains on: the history (line 587), or its latest sample alone
Batches == {metrics_history} \cup {Tail_n(metrics_history, 1)}

\* train_anomaly_model(batch); ret.batch keeps len(batch)
TrainAnomalyModel ==
    /\ session.status = "running"
    /\ \E metrics_data \in Batches :
       \E r \in {train_anomaly_model(metrics_data)} :
           /\ scaler' = r.scaler
           /\ model' = r.model
           /\ fit_columns' = r.columns
           /\ ret' = [NoReturn EXCEPT !.op = "train", !.outcome = r.outcome,
                                      !.batch = Len(metrics_data)]
    /\ UNCHANGED <<config, metrics_file, metrics_history, current_metrics, session,
                   clock, appended, queryVars, stepVars>>

\* a detect_anomalies that calls fit_transform where line 226 calls transform
DetectAnomaliesRefits ==
    /\ session.status = "running"
    /\ current_metrics # <<>>
    /\ \E r \in {detect_anomalies(current_metrics)} :
           ret' = [NoReturn EXCEPT !.op = "detect", !.outcome = r.outcome,
                                   !.is_anomaly = r.is_anomaly, !.score = r.score]
    /\ scaler' = IF model.is_none THEN scaler
                 ELSE ScalerFit(<<[c \in 1..Len(NumericColumns(Keys(current_metrics))) |->
                                     Get(current_metrics,
                                         NumericColumns(Keys(current_metrics))[c])]>>)
    /\ UNCHANGED <<config, metrics_file, metrics_history, model, current_metrics,
                   session, clock, appended, fit_columns, queryVars, stepVars>>

\* detect_anomalies(current_metrics)
DetectAnomalies ==
    /\ session.status = "running"
    /\ current_metrics # <<>>
    /\ \E r \in {detect_anomalies(current_metrics)} :
           ret' = [NoReturn EXCEPT !.op = "detect", !.outcome = r.outcome,
                                   !.is_anomaly = r.is_anomaly, !.score = r.score]
    /\ UNCHANGED <<config, metrics_file, metrics_history, scaler, model, current_metrics,
                   session, clock, appended, fit_columns, queryVars, stepVars>>

Next ==
    \/ NewSession
    \/ LoadMetricsHistory
    \/ CollectMetrics
    \/ SaveMetrics
    \/ TrainAnomalyModel
    \/ DetectAnomalies

Spec == Init /\ [][Next]_vars

(***************************************************************************)
(* The history operations alone, over snapshots that earlier sessions      *)
(* filled to the cap.                                                      *)
(***************************************************************************)
CapInit ==
    InitWith({Config(DefaultMinSamples, DefaultEnabled)},
             {FileOf(json_dump(PriorHistory(n, DemoNames))) : n \in NearCapLengths})

CapNext ==
    \/ NewSession
    \/ LoadMetricsHistory
    \/ CollectMetrics
    \/ SaveMetrics

CapSpec == CapInit /\ [][CapNext]_vars

(***************************************************************************)
(* train_anomaly_model one statement at a time.  training.pc is the line   *)
(* the call stands before, or how the last call ended; training.scaler and *)
(* training.model keep the pair the call found.                            *)
(***************************************************************************)
InProgress == training.pc \in {"line206", "line208", "line212"}

TrainingColumns == NumericColumns(DataFrameColumns(training.metrics_data))

\* lines 198-204: the guard; df, numeric_columns and X are local
TrainCall ==
    /\ session.status = "running"
    /\ ~InProgress
    /\ \E metrics_data \in Batches :
           IF Len(metrics_data) < config.min_samples_for_training
           THEN /\ training' = [pc |-> "returned", metrics_data |-> metrics_data,
                                scaler |-> scaler, model |-> model]
                /\ ret' = [NoReturn EXCEPT !.op = "train", !.outcome = "not_enough_data",
                                           !.batch = Len(metrics_data)]
           ELSE /\ training' = [pc |-> "line206", metrics_data |-> metrics_data,
                                scaler |-> scaler, model |-> model]
                /\ ret' = [NoReturn EXCEPT !.op = "train", !.outcome = "none",
                                           !.batch = Len(metrics_data)]
    /\ UNCHANGED <<config, metrics_file, metrics_history, scaler, model, current_metrics,
                   session, clock, appended, fit_columns, queryVars, run>>

\* line 206: X_scaled = self.scaler.fit_transform(X), on the tool's own scaler
TrainFitTransform ==
    /\ training.pc = "line206"
    /\ IF Len(TrainingColumns) = 0
       THEN /\ scaler' = UnfittedScaler
            /\ fit_columns' = <<>>
            /\ training' = [training EXCEPT !.pc = "raised"]
            /\ ret' = [ret EXCEPT !.outcome = "raise"]
       ELSE /\ scaler' = ScalerFit(Matrix(training.metrics_data, TrainingColumns))
            /\ fit_columns' = TrainingColumns
            /\ training' = [training EXCEPT !.pc = "line208"]
            /\ UNCHANGED ret
    /\ UNCHANGED <<config, metrics_file, metrics_history, model, current_metrics,
                   session, clock, appended, queryVars, run>>

\* lines 208-211: self.model = IsolationForest(...)
TrainNewForest ==
    /\ training.pc = "line208"
    /\ model' = NewForest(config)
    /\ training' = [training EXCEPT !.pc = "line212"]
    /\ UNCHANGED <<config, metrics_file, metrics_history, scaler, current_metrics, ret,
                   session, clock, appended, fit_columns, queryVars, run>>

\* line 212: self.model.fit(X_scaled)
TrainFit ==
    /\ training.pc = "line212"
    /\ \E X \in {Matrix(training.metrics_data, TrainingColumns)} :
           IF HasNaN(X)
           THEN /\ training' = [training EXCEPT !.pc = "raised"]
                /\ ret' = [ret EXCEPT !.outcome = "raise"]
                /\ UNCHANGED model
           ELSE /\ model' = ForestFit(model,
                                      Eval([i \in 1..Len(X) |-> ScalerTransform(scaler, X[i])]))
                /\ training' = [training EXCEPT !.pc = "returned"]
                /\ ret' = [ret EXCEPT !.outcome = "trained"]
    /\ UNCHANGED <<config, metrics_file, metrics_history, scaler, current_metrics,
                   session, clock, appended, fit_columns, queryVars, run>>

\* the tool has one caller: nothing else runs while a call is in progress
StepNext ==
    \/ ~InProgress /\ NewSession
    \/ ~InProgress /\ CollectMetrics
    \/ ~InProgress /\ SaveMetrics
    \/ ~InProgress /\ DetectAnomalies
    \/ TrainCall
    \/ TrainFitTransform
    \/ TrainNewForest
    \/ TrainFit

StepSpec == Init /\ [][StepNext]_vars

(***************************************************************************)
(* One run of main (lines 465-610).  run.args is the set of action flags   *)
(* on the command line; for the length of a run MySQL is reachable or not, *)
(* and the status values do not change.  run.saves counts the calls of     *)
(* save_metrics, run.batch is the list handed to train_anomaly_model.      *)
(***************************************************************************)
\* range(100), line 566
MonitorSamples == 100

\* the flags of lines 511-545, in the order main tests them
EarlyCommands ==
    {"config", "show_history", "analyze_queries", "query_report", "ask", "ai_analysis",
     "select_database"}

ArgChoices ==
    {{c} : c \in EarlyCommands}
    \cup {{}, {"analyze"}, {"monitor"}, {"monitor", "analyze"},
          {"config", "analyze"}, {"show_history", "monitor"}}

\* lines 505-509: parse the arguments, build the tool, load the history
MainStart ==
    /\ run.pc = "none"
    /\ \E args \in ArgChoices, connected \in BOOLEAN :
       \E reading \in IF connected THEN LiveReadings ELSE DemoReadings :
       \E r \in {load_metrics_history} :
           /\ ret' = Returned("load", r)
           /\ metrics_history' = r.value
           /\ appended' = r.value
           /\ session' = [number |-> session.number + 1,
                          status |-> IF r.outcome = "raise" THEN "crashed" ELSE "running"]
           /\ run' = [NoRun EXCEPT
                          !.pc = IF r.outcome = "raise" THEN "crashed" ELSE "dispatch",
                          !.args = args, !.connected = connected, !.reading = reading]
    /\ scaler' = UnfittedScaler
    /\ model' = NoModel
    /\ current_metrics' = <<>>
    /\ fit_columns' = <<>>
    /\ UNCHANGED <<config, metrics_file, clock, queryVars, training>>

\* lines 511-550: the commands that return, and print_help without an action
\* flag; what the commands do to the query analyses is in the other specifications
MainDispatch ==
    /\ run.pc = "dispatch"
    /\ run' = [run EXCEPT !.pc = IF run.args \cap EarlyCommands # {}
                                    \/ run.args \cap {"monitor", "analyze"} = {}
                                 THEN "done" ELSE "collect"]
    /\ IF "show_history" \in run.args /\ "config" \notin run.args
       THEN ret' = Returned("load", load_metrics_history)
       ELSE UNCHANGED ret
    /\ UNCHANGED <<config, metrics_file, metrics_history, scaler, model, current_metrics,
                   session, clock, appended, fit_columns, queryVars, training>>

\* lines 553-560 and 567-573: collect_metrics(), in demo mode when that gave nothing
MainCollected(ts) ==
    LET live == collect_metrics(FALSE, run.connected, run.reading, ts)
    IN  IF live = <<>> THEN collect_metrics(TRUE, run.connected, run.reading, ts) ELSE live

\* lines 552-560
MainCollect ==
    /\ run.pc = "collect"
    /\ clock' = clock + 1
    /\ current_metrics' = MainCollected(clock')
    /\ run' = [run EXCEPT !.pc = IF current_metrics' = <<>> THEN "exit" ELSE "save"]
    /\ ret' = [NoReturn EXCEPT !.op = "collect", !.outcome = "return"]
    /\ UNCHANGED <<config, metrics_file, metrics_history, scaler, model, session,
                   appended, fit_columns, queryVars, training>>

\* line 562
MainSave ==
    /\ run.pc = "save"
    /\ \E r \in {save_metrics(current_metrics)} :
           /\ metrics_history' = r.history
           /\ metrics_file' = r.file
    /\ appended' = Append(appended, current_metrics)
    /\ run' = [run EXCEPT !.saves = @ + 1,
                          !.pc = IF "monitor" \in run.args THEN "loop" ELSE "analyze"]
    /\ ret' = [NoReturn EXCEPT !.op = "save", !.outcome = "return"]
    /\ UNCHANGED <<config, scaler, model, current_metrics, session, clock,
                   fit_columns, queryVars, training>>

\* lines 566-574, one pass of the loop; after the last one line 577 and on
MonitorIteration ==
    /\ run.pc = "loop"
    /\ run.i < MonitorSamples
    /\ clock' = clock + 1
    /\ current_metrics' = MainCollected(clock')
    /\ IF current_metrics' = <<>>
       THEN /\ run' = [run EXCEPT !.pc = "exit"]
            /\ UNCHANGED <<metrics_history, metrics_file, appended>>
       ELSE /\ \E r \in {save_metrics(current_metrics')} :
                   /\ metrics_history' = r.history
                   /\ metrics_file' = r.file
            /\ appended' = Append(appended, current_metrics')
            /\ run' = [run EXCEPT !.saves = @ + 1, !.i = @ + 1,
                                  !.pc = IF run.i + 1 < MonitorSamples THEN "loop"
                                         ELSE IF "analyze" \in run.args THEN "analyze"
                                         ELSE "done"]
    /\ ret' = [NoReturn EXCEPT !.op = "save", !.outcome = "return"]
    /\ UNCHANGED <<config, scaler, model, session, fit_columns, queryVars, training>>

\* a main that trains before the sample it scores is in the history
BatchWithoutSample == SubSeq(metrics_history, 1, Len(metrics_history) - 1)

\* line 587: the batch is tool.metrics_history
AnalyzeBatch == metrics_history

\* lines 586-587, or the message of lines 607-610
MainTrain ==
    /\ run.pc = "analyze"
    /\ IF Len(metrics_history) >= config.min_samples_for_training
       THEN \E r \in {train_anomaly_model(AnalyzeBatch)} :
               /\ scaler' = r.scaler
               /\ model' = r.model
               /\ fit_columns' = r.columns
               /\ ret' = [NoReturn EXCEPT !.op = "train", !.outcome = r.outcome,
                                          !.batch = Len(AnalyzeBatch)]
               /\ run' = [run EXCEPT !.trained = TRUE, !.batch = AnalyzeBatch,
                                     !.pc = IF r.outcome = "raise" THEN "crashed"
                                            ELSE "detect"]
               /\ session' = [session EXCEPT
                                  !.status = IF r.outcome = "raise" THEN "crashed" ELSE @]
       ELSE /\ run' = [run EXCEPT !.message = TRUE, !.pc = "done"]
            /\ UNCHANGED <<scaler, model, fit_columns, ret, session>>
    /\ UNCHANGED <<config, metrics_file, metrics_history, current_metrics, clock,
                   appended, queryVars, training>>

\* line 589
MainDetect ==
    /\ run.pc = "detect"
    /\ \E r \in {detect_anomalies(current_metrics)} :
           /\ ret' = [NoReturn EXCEPT !.op = "detect", !.outcome = r.outcome,
                                      !.is_anomaly = r.is_anomaly, !.score = r.score]
           /\ run' = [run EXCEPT !.scored = TRUE,
                                 !.pc = IF r.outcome = "raise" THEN "crashed" ELSE "done"]
           /\ session' = [session EXCEPT
                              !.status = IF r.outcome = "raise" THEN "crashed" ELSE @]
    /\ UNCHANGED <<config, metrics_file, metrics_history, scaler, model, current_metrics,
                   clock, appended, fit_columns, queryVars, training>>

MainNext ==
    \/ MainStart
    \/ MainDispatch
    \/ MainCollect
    \/ MainSave
    \/ MonitorIteration
    \/ MainTrain
    \/ MainDetect

MainSpec == Init /\ [][MainNext]_vars

(***************************************************************************)
(* Query text and re.search.  A text is the sequence of its characters.    *)
(* The patterns of query_patterns are concatenations of atoms: a character *)
(* class taken once, one or more times, or any number of times.            *)
(***************************************************************************)
UpperCase ==
    <<"A", "B", "C", "D", "E", "F", "G", "H", "I", "J", "K", "L", "M",
      "N", "O", "P", "Q", "R", "S", "T", "U", "V", "W", "X", "Y", "Z">>

LowerCase ==
    <<"a", "b", "c", "d", "e", "f", "g", "h", "i", "j", "k", "l", "m",
      "n", "o", "p", "q", "r", "s", "t", "u", "v", "w", "x", "y", "z">>

Digits == {"0", "1", "2", "3", "4", "5", "6", "7", "8", "9"}

\* \w
WordChars == Range(UpperCase) \cup Range(LowerCase) \cup Digits \cup {"_"}

\* the lower-case form of each upper-case letter
LowerOf ==
    [c \in Range(UpperCase) |-> LowerCase[CHOOSE i \in 1..Len(UpperCase) : UpperCase[i] = c]]

\* the form re.IGNORECASE compares characters by
ToLower(c) == IF c \in DOMAIN LowerOf THEN LowerOf[c] ELSE c

\* atoms: <<quantifier, class, character>>
Char(c) == <<"1", "char", c>>

Word(cs) == [i \in 1..Len(cs) |-> Char(cs[i])]

SpacePlus == <<"+", "space", " ">>

SpaceStar == <<"*", "space", " ">>

WordPlus == <<"+", "word", " ">>

AnyStar == <<"*", "any", " ">>

\* ['"]
QuoteChar == <<"1", "quote", " ">>

\* does character c belong to the atom's class
InClass(atom, c, ignorecase) ==
    CASE atom[2] = "char"  -> IF ignorecase THEN ToLower(c) = ToLower(atom[3])
                              ELSE c = atom[3]
      [] atom[2] = "space" -> c = " "
      [] atom[2] = "word"  -> c \in WordChars
      [] atom[2] = "quote" -> c \in {"'", "\""}
      [] atom[2] = "any"   -> TRUE

\* the end of the longest run of characters of the atom's class from p on
RECURSIVE RunEnd(_, _, _, _)
RunEnd(atom, text, p, ignorecase) ==
    IF p <= Len(text) /\ InClass(atom, text[p], ignorecase)
    THEN RunEnd(atom, text, p + 1, ignorecase)
    ELSE p

\* the positions the atom can end at, from a match so far ending before p
AtomEnds(atom, text, p, ignorecase) ==
    CASE atom[1] = "1" -> IF p <= Len(text) /\ InClass(atom, text[p], ignorecase)
                          THEN {p + 1} ELSE {}
      [] atom[1] = "+" -> (p + 1)..RunEnd(atom, text, p, ignorecase)
      [] atom[1] = "*" -> p..RunEnd(atom, text, p, ignorecase)

\* the positions the atoms i.. of the pattern can end at, from the positions in from
RECURSIVE MatchEnds(_, _, _, _, _)
MatchEnds(pattern, i, text, from, ignorecase) ==
    IF i > Len(pattern) \/ from = {} THEN from
    ELSE MatchEnds(pattern, i + 1, text,
                   UNION {AtomEnds(pattern[i], text, p, ignorecase) : p \in from},
                   ignorecase)

\* re.search(pattern, text, flags) is not None: a match from any position
re_search(pattern, text, ignorecase) ==
    MatchEnds(Eval(pattern), 1, text, 1..(Len(text) + 1), ignorecase) # {}

(***************************************************************************)
(* QueryAnalyzer: query_patterns (lines 23-45).                            *)
(***************************************************************************)
\* the categories, in the order of the dict, each with its patterns in order
IssueTypes == <<"missing_index", "full_table_scan", "inefficient_joins", "subquery_issues">>

query_patterns ==
    <<
    <<
        \* r'WHERE\s+\w+\s*=\s*\?'
        (Word(<<"W", "H", "E", "R", "E">>)
            \o <<SpacePlus, WordPlus, SpaceStar>>
            \o Word(<<"=">>)
            \o <<SpaceStar>>
            \o Word(<<"?">>)),
        \* r'WHERE\s+\w+\s+IN\s*\('
        (Word(<<"W", "H", "E", "R", "E">>)
            \o <<SpacePlus, WordPlus, SpacePlus>>
            \o Word(<<"I", "N">>)
            \o <<SpaceStar>>
            \o Word(<<"(">>)),
        \* r'ORDER\s+BY\s+\w+'
        (Word(<<"O", "R", "D", "E", "R">>)
            \o <<SpacePlus>>
            \o Word(<<"B", "Y">>)
            \o <<SpacePlus, WordPlus>>),
        \* r'GROUP\s+BY\s+\w+'
        (Word(<<"G", "R", "O", "U", "P">>)
            \o <<SpacePlus>>
            \o Word(<<"B", "Y">>)
            \o <<SpacePlus, WordPlus>>)
    >>,
    <<
        \* r'WHERE\s+\w+\s+LIKE\s+['\"]%'
        (Word(<<"W", "H", "E", "R", "E">>)
            \o <<SpacePlus, WordPlus, SpacePlus>>
            \o Word(<<"L", "I", "K", "E">>)
            \o <<SpacePlus, QuoteChar>>
            \o Word(<<"%">>)),
        \* r'WHERE\s+\w+\s+!='
        (Word(<<"W", "H", "E", "R", "E">>)
            \o <<SpacePlus, WordPlus, SpacePlus>>
            \o Word(<<"!", "=">>)),
        \* r'WHERE\s+\w+\s+NOT\s+IN'
        (Word(<<"W", "H", "E", "R", "E">>)
            \o <<SpacePlus, WordPlus, SpacePlus>>
            \o Word(<<"N", "O", "T">>)
            \o <<SpacePlus>>
            \o Word(<<"I", "N">>))
    >>,
    <<
        \* r'CROSS\s+JOIN'
        (Word(<<"C", "R", "O", "S", "S">>)
            \o <<SpacePlus>>
            \o Word(<<"J", "O", "I", "N">>)),
        \* r'LEFT\s+JOIN.*WHERE.*IS\s+NULL'
        (Word(<<"L", "E", "F", "T">>)
            \o <<SpacePlus>>
            \o Word(<<"J", "O", "I", "N">>)
            \o <<AnyStar>>
            \o Word(<<"W", "H", "E", "R", "E">>)
            \o <<AnyStar>>
            \o Word(<<"I", "S">>)
            \o <<SpacePlus>>
            \o Word(<<"N", "U", "L", "L">>)),
        \* r'JOIN.*ON\s+\w+\.\w+\s*=\s*\w+\.\w+.*AND'
        (Word(<<"J", "O", "I", "N">>)
            \o <<AnyStar>>
            \o Word(<<"O", "N">>)
            \o <<SpacePlus, WordPlus>>
            \o Word(<<".">>)
            \o <<WordPlus, SpaceStar>>
            \o Word(<<"=">>)
            \o <<SpaceStar, WordPlus>>
            \o Word(<<".">>)
            \o <<WordPlus, AnyStar>>
            \o Word(<<"A", "N", "D">>))
    >>,
    <<
        \* r'WHERE\s+\w+\s+IN\s*\(SELECT'
        (Word(<<"W", "H", "E", "R", "E">>)
            \o <<SpacePlus, WordPlus, SpacePlus>>
            \o Word(<<"I", "N">>)
            \o <<SpaceStar>>
            \o Word(<<"(", "S", "E", "L", "E", "C", "T">>)),
        \* r'WHERE\s+EXISTS\s*\(SELECT'
        (Word(<<"W", "H", "E", "R", "E">>)
            \o <<SpacePlus>>
            \o Word(<<"E", "X", "I", "S", "T", "S">>)
            \o <<SpaceStar>>
            \o Word(<<"(", "S", "E", "L", "E", "C", "T">>)),
        \* r'SELECT.*FROM\s*\(SELECT'
        (Word(<<"S", "E", "L", "E", "C", "T">>)
            \o <<AnyStar>>
            \o Word(<<"F", "R", "O", "M">>)
            \o <<SpaceStar>>
            \o Word(<<"(", "S", "E", "L", "E", "C", "T">>))
    >>
    >>

(***************************************************************************)
(* The query texts of the model.                                           *)
(***************************************************************************)
\* SELECT * FROM users WHERE email = 'x'
QueryScenarioA ==
    <<"S", "E", "L", "E", "C", "T", " ", "*", " ", "F", "R", "O", "M", " ", "u", "s", "e",
      "r", "s", " ", "W", "H", "E", "R", "E", " ", "e", "m", "a", "i", "l", " ", "=", " ",
      "'", "x", "'">>

\* SELECT * FROM users WHERE email = ?
QueryPlaceholder ==
    <<"S", "E", "L", "E", "C", "T", " ", "*", " ", "F", "R", "O", "M", " ", "u", "s", "e",
      "r", "s", " ", "W", "H", "E", "R", "E", " ", "e", "m", "a", "i", "l", " ", "=", " ",
      "?">>

\* select * from orders where status in ('pending') order by created_at desc
QueryLowerCase ==
    <<"s", "e", "l", "e", "c", "t", " ", "*", " ", "f", "r", "o", "m", " ", "o", "r", "d",
      "e", "r", "s", " ", "w", "h", "e", "r", "e", " ", "s", "t", "a", "t", "u", "s", " ",
      "i", "n", " ", "(", "'", "p", "e", "n", "d", "i", "n", "g", "'", ")", " ", "o", "r",
      "d", "e", "r", " ", "b", "y", " ", "c", "r", "e", "a", "t", "e", "d", "_", "a", "t",
      " ", "d", "e", "s", "c">>

\* demo_queries, id 1004
QueryDemo1004 ==
    <<"S", "E", "L", "E", "C", "T", " ", "*", " ", "F", "R", "O", "M", " ", "p", "r", "o",
      "d", "u", "c", "t", "s", " ", "W", "H", "E", "R", "E", " ", "n", "a", "m", "e", " ",
      "L", "I", "K", "E", " ", "'", "%", "l", "a", "p", "t", "o", "p", "%", "'", " ", "A",
      "N", "D", " ", "c", "a", "t", "e", "g", "o", "r", "y", "_", "i", "d", " ", "=", " ",
      "5">>

\* demo_queries, id 1005
QueryDemo1005 ==
    <<"S", "E", "L", "E", "C", "T", " ", "C", "O", "U", "N", "T", "(", "*", ")", " ", "F",
      "R", "O", "M", " ", "o", "r", "d", "e", "r", "s", " ", "o", " ", "W", "H", "E", "R",
      "E", " ", "E", "X", "I", "S", "T", "S", " ", "(", "S", "E", "L", "E", "C", "T", " ",
      "1", " ", "F", "R", "O", "M", " ", "o", "r", "d", "e", "r", "_", "i", "t", "e", "m",
      "s", " ", "o", "i", " ", "W", "H", "E", "R", "E", " ", "o", "i", ".", "o", "r", "d",
      "e", "r", "_", "i", "d", " ", "=", " ", "o", ".", "i", "d", " ", "A", "N", "D", " ",
      "o", "i", ".", "q", "u", "a", "n", "t", "i", "t", "y", " ", ">", " ", "1", "0", ")">>

\* demo_queries, id 1007
QueryDemo1007 ==
    <<"S", "E", "L", "E", "C", "T", " ", "u", ".", "n", "a", "m", "e", ",", " ", "C", "O",
      "U", "N", "T", "(", "p", ".", "i", "d", ")", " ", "a", "s", " ", "p", "o", "s", "t",
      "_", "c", "o", "u", "n", "t", " ", "F", "R", "O", "M", " ", "u", "s", "e", "r", "s",
      " ", "u", " ", "L", "E", "F", "T", " ", "J", "O", "I", "N", " ", "p", "o", "s", "t",
      "s", " ", "p", " ", "O", "N", " ", "u", ".", "i", "d", " ", "=", " ", "p", ".", "u",
      "s", "e", "r", "_", "i", "d", " ", "G", "R", "O", "U", "P", " ", "B", "Y", " ", "u",
      ".", "i", "d", " ", "H", "A", "V", "I", "N", "G", " ", "p", "o", "s", "t", "_", "c",
      "o", "u", "n", "t", " ", ">", " ", "1", "0">>

\* SELECT * FROM a CROSS JOIN b WHERE x != 1 GROUP BY y
QueryThreeIssues ==
    <<"S", "E", "L", "E", "C", "T", " ", "*", " ", "F", "R", "O", "M", " ", "a", " ", "C",
      "R", "O", "S", "S", " ", "J", "O", "I", "N", " ", "b", " ", "W", "H", "E", "R", "E",
      " ", "x", " ", "!", "=", " ", "1", " ", "G", "R", "O", "U", "P", " ", "B", "Y", " ",
      "y">>

\* SELECT id FROM t WHERE id IN (SELECT id FROM u)
QueryInSubquery ==
    <<"S", "E", "L", "E", "C", "T", " ", "i", "d", " ", "F", "R", "O", "M", " ", "t", " ",
      "W", "H", "E", "R", "E", " ", "i", "d", " ", "I", "N", " ", "(", "S", "E", "L", "E",
      "C", "T", " ", "i", "d", " ", "F", "R", "O", "M", " ", "u", ")">>

\* SELECT * FROM t WHERE a NOT IN (1)
QueryNotIn ==
    <<"S", "E", "L", "E", "C", "T", " ", "*", " ", "F", "R", "O", "M", " ", "t", " ", "W",
      "H", "E", "R", "E", " ", "a", " ", "N", "O", "T", " ", "I", "N", " ", "(", "1", ")">>

\* SELECT a FROM (SELECT a FROM t) s
QueryNested ==
    <<"S", "E", "L", "E", "C", "T", " ", "a", " ", "F", "R", "O", "M", " ", "(", "S", "E",
      "L", "E", "C", "T", " ", "a", " ", "F", "R", "O", "M", " ", "t", ")", " ", "s">>

\* SELECT * FROM a JOIN b ON a.id = b.id AND a.x = 1
QueryJoinAnd ==
    <<"S", "E", "L", "E", "C", "T", " ", "*", " ", "F", "R", "O", "M", " ", "a", " ", "J",
      "O", "I", "N", " ", "b", " ", "O", "N", " ", "a", ".", "i", "d", " ", "=", " ", "b",
      ".", "i", "d", " ", "A", "N", "D", " ", "a", ".", "x", " ", "=", " ", "1">>

\* SELECT 1
QueryPlain ==
    <<"S", "E", "L", "E", "C", "T", " ", "1">>

QueryTexts ==
    {QueryScenarioA,
     QueryPlaceholder,
     QueryLowerCase,
     QueryDemo1004,
     QueryDemo1005,
     QueryDemo1007,
     QueryThreeIssues,
     QueryInSubquery,
     QueryNotIn,
     QueryNested,
     QueryJoinAnd,
     QueryPlain}

(***************************************************************************)
(* QueryAnalyzer.analyze_query_performance (lines 141-175).  Times are in  *)
(* tenths of a second; the efficiency ratio is the fraction <<num, den>>.  *)
(***************************************************************************)
slow_query_threshold == 20

CriticalTime == 50

HighTime == 20

MediumTime == 10

CriticalRows == 5000000

HighRows == 1000000

MediumRows == 100000

\* lines 157-163, with every comparison taken non-strictly
SeverityNonStrict(execution_time, rows_examined) ==
    IF execution_time >= CriticalTime \/ rows_examined >= CriticalRows THEN "critical"
    ELSE IF execution_time >= HighTime \/ rows_examined >= HighRows THEN "high"
    ELSE IF execution_time >= MediumTime \/ rows_examined >= MediumRows THEN "medium"
    ELSE "low"

\* lines 157-163, with the rows comparison of the first branch reversed
SeverityRowsReversed(execution_time, rows_examined) ==
    IF execution_time > CriticalTime \/ rows_examined < CriticalRows THEN "critical"
    ELSE IF execution_time > HighTime \/ rows_examined > HighRows THEN "high"
    ELSE IF execution_time > MediumTime \/ rows_examined > MediumRows THEN "medium"
    ELSE "low"

\* lines 154 and 157-163: 'low' unless one of the branches assigns
Severity(execution_time, rows_examined) ==
    IF execution_time > CriticalTime \/ rows_examined > CriticalRows THEN "critical"
    ELSE IF execution_time > HighTime \/ rows_examined > HighRows THEN "high"
    ELSE IF execution_time > MediumTime \/ rows_examined > MediumRows THEN "medium"
    ELSE "low"

\* line 150
EfficiencyRatio(rows_sent, rows_examined) ==
    IF rows_examined > 0 THEN <<rows_sent, rows_examined>> ELSE <<0, 1>>

\* the inner loop of lines 166-170: the first matching pattern ends it
RECURSIVE AnyPatternMatches(_, _, _)
AnyPatternMatches(patterns, j, query) ==
    IF j > Len(patterns) THEN FALSE
    ELSE IF re_search(patterns[j], query, TRUE) THEN TRUE
    ELSE AnyPatternMatches(patterns, j + 1, query)

\* lines 165-170 with the break leaving both loops
RECURSIVE DetectIssuesBreakOuter(_, _, _)
DetectIssuesBreakOuter(i, query, issues) ==
    IF i > Len(IssueTypes) THEN issues
    ELSE IF AnyPatternMatches(query_patterns[i], 1, query)
         THEN Append(issues, IssueTypes[i])
         ELSE DetectIssuesBreakOuter(i + 1, query, issues)

\* the loop of lines 165-170 over the categories from i on
RECURSIVE DetectIssues(_, _, _)
DetectIssues(i, query, issues) ==
    IF i > Len(IssueTypes) THEN issues
    ELSE DetectIssues(i + 1, query,
            IF AnyPatternMatches(query_patterns[i], 1, query)
            THEN Append(issues, IssueTypes[i]) ELSE issues)

\* _generate_recommendations (lines 177-203); the texts without their emoji
IssueRecommendations ==
    <<  <<"Add appropriate indexes to improve query performance",
          "Consider composite indexes for multi-column WHERE clauses">>,
        <<"Avoid LIKE patterns with leading wildcards",
          "Consider full-text search indexes for text searching">>,
        <<"Optimize JOIN conditions and add foreign key indexes",
          "Consider query rewriting for better performance">>,
        <<"Consider rewriting subqueries as JOINs",
          "Use EXISTS only when necessary, prefer JOINs for better performance">>  >>

LowEfficiencyRecommendation ==
    "Very low efficiency ratio - consider adding WHERE clauses to reduce examined rows"

SlowRecommendation ==
    "Query execution time exceeds 2 seconds - immediate optimization needed"

RECURSIVE IssueRecs(_, _)
IssueRecs(i, issues) ==
    IF i > Len(IssueTypes) THEN <<>>
    ELSE (IF IssueTypes[i] \in Range(issues) THEN IssueRecommendations[i] ELSE <<>>)
         \o IssueRecs(i + 1, issues)

\* lines 177-203 with the two heuristics applied only when an issue was found
recommendations_only_with_issues(a) ==
    IF a.issues = <<>> THEN <<>>
    ELSE IssueRecs(1, a.issues)
         \o (IF a.efficiency_ratio[1] * 100 < a.efficiency_ratio[2]
             THEN <<LowEfficiencyRecommendation>> ELSE <<>>)
         \o (IF a.execution_time > HighTime THEN <<SlowRecommendation>> ELSE <<>>)

\* lines 200-201 with >= where the code has >
recommendations_slow_from_threshold(a) ==
    IssueRecs(1, a.issues)
    \o (IF a.efficiency_ratio[1] * 100 < a.efficiency_ratio[2]
        THEN <<LowEfficiencyRecommendation>> ELSE <<>>)
    \o (IF a.execution_time >= HighTime THEN <<SlowRecommendation>> ELSE <<>>)

_generate_recommendations(a) ==
    IssueRecs(1, a.issues)
    \o (IF a.efficiency_ratio[1] * 100 < a.efficiency_ratio[2]
        THEN <<LowEfficiencyRecommendation>> ELSE <<>>)
    \o (IF a.execution_time > HighTime THEN <<SlowRecommendation>> ELSE <<>>)

\* query_data[key] of lines 144-150 raises KeyError for a key the dict lacks
KeyError == [done |-> FALSE, raised |-> TRUE]

analyze_query_performance(q) ==
    IF q.missing # {} THEN KeyError ELSE
    LET a == [done            |-> TRUE,
              query_id        |-> q.id,
              query           |-> q.query,
              execution_time  |-> q.execution_time,
              rows_examined   |-> q.rows_examined,
              rows_sent       |-> q.rows_sent,
              is_slow         |-> q.execution_time > slow_query_threshold,
              efficiency_ratio |-> EfficiencyRatio(q.rows_sent, q.rows_examined),
              issues          |-> Eval(DetectIssues(1, q.query, <<>>)),
              severity        |-> Severity(q.execution_time, q.rows_examined)]
    IN  With(a, LAMBDA b : [b EXCEPT !.done = TRUE]
                           @@ [recommendations |-> _generate_recommendations(b)])

(***************************************************************************)
(* The records handed to the analyzer: every text with the statistics of   *)
(* the demo record 1001, two texts with rows_sent around a hundredth of    *)
(* rows_examined and above it, one text with every combination of the      *)
(* statistics around the breakpoints of lines 157-163, and the records     *)
(* with zero or missing statistics.                                        *)
(***************************************************************************)
Times == {5, MediumTime, MediumTime + 1, HighTime, HighTime + 1, CriticalTime, CriticalTime + 1}

Rows == {0, MediumRows, MediumRows + 1, HighRows, HighRows + 1, CriticalRows, CriticalRows + 1}

Sent == {0, 1}

\* missing: the keys the dict does not have (their fields are then not read)
QueryRecord(query, execution_time, rows_examined, rows_sent) ==
    [id |-> 1001, query |-> query, execution_time |-> execution_time,
     rows_examined |-> rows_examined, rows_sent |-> rows_sent, missing |-> {}]

StatKeys == {"execution_time", "rows_examined", "rows_sent"}

\* the all-zero record and the records that lack one or all of the statistics
DegenerateRecords ==
    {[QueryRecord(QueryPlain, 0, 0, 0) EXCEPT !.missing = m] :
        m \in {{}, StatKeys} \cup {{k} : k \in StatKeys}}

\* rows_sent from a hundred-thousandth of MediumRows to twice MediumRows
SelectiveSent == {1, MediumRows \div 100 - 1, MediumRows \div 100, MediumRows \div 2, 2 * MediumRows}

QueryRecords ==
    {QueryRecord(q, 5, HighRows, 1) : q \in QueryTexts}
    \cup {QueryRecord(q, t, MediumRows, s) : q \in {QueryPlain, QueryThreeIssues},
                                             t \in {5, HighTime + 1}, s \in SelectiveSent}
    \cup {QueryRecord(QueryPlaceholder, t, r, s) : t \in Times, r \in Rows, s \in Sent}
    \cup DegenerateRecords

QInit ==
    InitWith({Config(DefaultMinSamples, DefaultEnabled)}, {NoFile})

\* one call of analyze_query_performance in the loop of p3cli.py line 377
AnalyzeQuery ==
    \E q \in QueryRecords :
        /\ query_data' = q
        /\ analysis' = analyze_query_performance(q)
        /\ UNCHANGED <<toolVars, analyses, summary, recent_analysis>>

QNext == AnalyzeQuery

QSpec == QInit /\ [][QNext]_vars

(***************************************************************************)
(* QueryAnalyzer.generate_query_summary (lines 209-231).  The averages are *)
(* fractions <<num, den>>; issue_counts is the dict as its <<key, value>>  *)
(* pairs in insertion order.                                               *)
(***************************************************************************)
MaxQueries == 3

\* sum(1 for a in analyses if P(a))
CountIf(as, P(_)) == Cardinality({i \in 1..Len(as) : P(as[i])})

\* issue_counts[issue] = issue_counts.get(issue, 0) + 1  (line 220)
BumpCount(counts, issue) ==
    IF \E k \in 1..Len(counts) : counts[k][1] = issue
    THEN [k \in 1..Len(counts) |->
             IF counts[k][1] = issue THEN <<issue, counts[k][2] + 1>> ELSE counts[k]]
    ELSE Append(counts, <<issue, 1>>)

\* the inner loop of lines 219-220 over the issues of one analysis, from j on
RECURSIVE CountIssuesOf(_, _, _)
CountIssuesOf(issues, j, counts) ==
    IF j > Len(issues) THEN counts
    ELSE CountIssuesOf(issues, j + 1, BumpCount(counts, issues[j]))

\* the loop of lines 217-220 over the analyses from i on
RECURSIVE CountIssues(_, _, _)
CountIssues(as, i, counts) ==
    IF i > Len(as) THEN counts
    ELSE CountIssues(as, i + 1, Eval(CountIssuesOf(as[i].issues, 1, counts)))

\* a division by total_queries = 0
ZeroDivisionError == [done |-> FALSE, raised |-> TRUE]

\* lines 209-231 with the two divisions not guarded by total_queries > 0
generate_query_summary_unguarded(as) ==
    IF Len(as) = 0 THEN ZeroDivisionError
    ELSE [done                  |-> TRUE,
          total_queries         |-> Len(as),
          slow_queries          |-> CountIf(as, LAMBDA a : a.is_slow),
          critical_queries      |-> CountIf(as, LAMBDA a : a.severity = "critical"),
          high_priority_queries |-> CountIf(as, LAMBDA a : a.severity \in {"critical", "high"}),
          slow_query_percentage |-> <<CountIf(as, LAMBDA a : a.is_slow) * 100, Len(as)>>,
          issue_counts          |-> CountIssues(as, 1, <<>>),
          avg_execution_time    |-> <<SeqSum([i \in 1..Len(as) |-> as[i].execution_time]), Len(as)>>,
          total_rows_examined   |-> SeqSum([i \in 1..Len(as) |-> as[i].rows_examined]),
          total_rows_sent       |-> SeqSum([i \in 1..Len(as) |-> as[i].rows_sent])]

generate_query_summary(as) ==
    LET total_queries == Len(as)
        slow_queries  == CountIf(as, LAMBDA a : a.is_slow)
    IN  [done                  |-> TRUE,
         total_queries         |-> total_queries,
         slow_queries          |-> slow_queries,
         critical_queries      |-> CountIf(as, LAMBDA a : a.severity = "critical"),
         high_priority_queries |-> CountIf(as, LAMBDA a : a.severity \in {"critical", "high"}),
         slow_query_percentage |-> IF total_queries > 0
                                   THEN <<slow_queries * 100, total_queries>> ELSE <<0, 1>>,
         issue_counts          |-> CountIssues(as, 1, <<>>),
         avg_execution_time    |-> IF total_queries > 0
                                   THEN <<SeqSum([i \in 1..Len(as) |-> as[i].execution_time]),
                                          total_queries>>
                                   ELSE <<0, 1>>,
         total_rows_examined   |-> SeqSum([i \in 1..Len(as) |-> as[i].rows_examined]),
         total_rows_sent       |-> SeqSum([i \in 1..Len(as) |-> as[i].rows_sent])]

\* the records of a report: the severities, slow and not, with and without issues
ReportRecords ==
    {QueryRecord(QueryPlain, 5, 0, 0),
     QueryRecord(QueryPlain, MediumTime, 0, 0),
     QueryRecord(QueryPlain, MediumTime + 5, 0, 0),
     QueryRecord(QueryPlaceholder, HighTime, HighRows, 1),
     QueryRecord(QueryThreeIssues, HighTime + 1, MediumRows, 1),
     QueryRecord(QueryNotIn, CriticalTime + 1, CriticalRows, MediumRows)}

RInit ==
    InitWith({Config(DefaultMinSamples, DefaultEnabled)}, {NoFile})

\* one element of the list comprehension of p3cli.py line 377
AppendAnalysis ==
    /\ ~summary.done
    /\ Len(analyses) < MaxQueries
    /\ \E q \in ReportRecords :
           analyses' = Append(analyses, analyze_query_performance(q))
    /\ UNCHANGED <<toolVars, query_data, analysis, summary, recent_analysis>>

\* p3cli.py line 402
GenerateQuerySummary ==
    /\ ~summary.done
    /\ summary' = generate_query_summary(analyses)
    /\ UNCHANGED <<toolVars, query_data, analysis, analyses, recent_analysis>>

\* p3cli.py lines 305-315: the summary analyze_queries builds itself; line 310
\* divides by len(analyses)
analyze_queries_summary(as) ==
    IF Len(as) = 0 THEN ZeroDivisionError
    ELSE LET slow_queries == CountIf(as, LAMBDA a : a.execution_time > HighTime)
         IN  [done                  |-> TRUE,
              total_queries         |-> Len(as),
              slow_queries          |-> slow_queries,
              critical_queries      |-> CountIf(as, LAMBDA a : a.severity = "critical"),
              high_priority_queries |-> CountIf(as, LAMBDA a : a.severity = "high"),
              avg_execution_time    |-> <<SeqSum([i \in 1..Len(as) |-> as[i].execution_time]),
                                          Len(as)>>,
              total_rows_examined   |-> SeqSum([i \in 1..Len(as) |-> as[i].rows_examined]),
              total_rows_sent       |-> SeqSum([i \in 1..Len(as) |-> as[i].rows_sent]),
              issue_counts          |-> <<>>,
              slow_query_percentage |-> <<slow_queries * 100, Len(as)>>]

\* the same list summarized as analyze_queries does
SummarizeInline ==
    /\ summary.done
    /\ ret.op = "none"
    /\ \E r \in {analyze_queries_summary(analyses)} :
           ret' = [NoReturn EXCEPT !.op = "analyze_queries",
                                   !.outcome = IF r.done THEN "return" ELSE "raise",
                                   !.value = r]
    /\ UNCHANGED <<config, metrics_file, metrics_history, scaler, model, current_metrics,
                   session, clock, appended, fit_columns, queryVars, stepVars>>

RNext ==
    \/ AppendAnalysis
    \/ GenerateQuerySummary
    \/ SummarizeInline

RSpec == RInit /\ [][RNext]_vars

(***************************************************************************)
(* GeminiAnalyzer.analyze_multiple_queries and _save_analysis_context      *)
(* (src/gemini_analyzer.py lines 236-307).  What the service answers is    *)
(* not in the program's hands: one of a few kinds of response per query.   *)
(***************************************************************************)
MaxBatch == 2

\* max(n, 1)
FlooredAtOne(n) == IF n > 1 THEN n ELSE 1

GeminiQueries ==
    {QueryRecord(QueryPlain, 5, 0, 0),
     QueryRecord(QueryScenarioA, HighTime, HighRows, 1),
     QueryRecord(QueryDemo1004, 45, 3000000, 500)}

\* a text with a 'Why it' line that names a critical severity, a text with
\* neither, and a failed call
AIResponses == {"critical_why", "plain", "api_error"}

\* response.text, as its lines
ResponseText(response) ==
    IF response = "critical_why"
    THEN <<"Why it is slow: the filter cannot use an index", "Severity: Critical">>
    ELSE <<"Add an index on the filtered column">>

\* lines 240-249: the metrics handed to analyze_query
GeminiMetrics(query_data_) ==
    [execution_time   |-> query_data_.execution_time,
     rows_examined    |-> query_data_.rows_examined,
     rows_sent        |-> query_data_.rows_sent,
     efficiency_ratio |-> <<query_data_.rows_sent, FlooredAtOne(query_data_.rows_examined)>>]

\* _parse_analysis_response (lines 178-211)
_parse_analysis_response(response, query, metrics) ==
    [query            |-> query,
     execution_time   |-> metrics.execution_time,
     rows_examined    |-> metrics.rows_examined,
     rows_sent        |-> metrics.rows_sent,
     efficiency_ratio |-> <<metrics.rows_sent, FlooredAtOne(metrics.rows_examined)>>,
     severity         |-> IF response = "critical_why" THEN "critical" ELSE "medium",
     ai_analysis      |-> ResponseText(response)]

\* analyze_query (lines 56-94): the parsed answer, or the error dict of lines 84-94
analyze_query(query, metrics, response) ==
    IF response = "api_error"
    THEN [query          |-> query,
          execution_time |-> metrics.execution_time,
          rows_examined  |-> metrics.rows_examined,
          rows_sent      |-> metrics.rows_sent,
          severity       |-> "unknown",
          ai_analysis    |-> <<"Error analyzing query: unavailable">>]
    ELSE _parse_analysis_response(response, query, metrics)

\* lines 269-279: the first line of the text that holds 'Why it', else "Unknown"
MainIssue(a) ==
    IF a.severity = "critical" THEN a.ai_analysis[1] ELSE "Unknown"

\* _save_analysis_context (lines 259-307): the file afterwards.  The division
\* of line 268 fails for an empty list, before anything is written; the
\* except clause of line 306 prints a warning.
_save_analysis_context(as, file, now) ==
    IF Len(as) = 0 THEN file
    ELSE SnapshotOf(
           [total_queries      |-> Len(as),
            slow_queries       |-> CountIf(as, LAMBDA a : a.execution_time > HighTime),
            critical_issues    |-> CountIf(as, LAMBDA a : a.severity = "critical"),
            avg_execution_time |-> <<SeqSum([i \in 1..Len(as) |-> as[i].execution_time]), Len(as)>>,
            queries            |-> [i \in 1..Len(as) |->
                                      [query          |-> as[i].query,
                                       execution_time |-> as[i].execution_time,
                                       rows_examined  |-> as[i].rows_examined,
                                       severity       |-> as[i].severity,
                                       main_issue     |-> MainIssue(as[i])]],
            timestamp          |-> now])

GInit ==
    InitWith({Config(DefaultMinSamples, DefaultEnabled)}, {NoFile})

\* analyze_multiple_queries (lines 236-257) on a batch of queries
AnalyzeMultipleQueries ==
    \E n \in 0..MaxBatch :
        \E queries \in [1..n -> GeminiQueries], responses \in [1..n -> AIResponses] :
            \E results \in {[i \in 1..n |->
                                analyze_query(queries[i].query, GeminiMetrics(queries[i]),
                                              responses[i])]} :
                /\ recent_analysis' = _save_analysis_context(results, recent_analysis, clock)
                /\ ret' = [NoReturn EXCEPT !.op = "analyze_multiple_queries",
                                           !.outcome = "return",
                                           !.value = results,
                                           !.batch = n]
                /\ UNCHANGED <<config, metrics_file, metrics_history, scaler, model,
                               current_metrics, session, clock, appended, fit_columns,
                               query_data, analysis, analyses, summary, stepVars>>

GNext == AnalyzeMultipleQueries

GSpec == GInit /\ [][GNext]_vars

(***************************************************************************)
(* The claims about the metrics history and the anomaly pipeline.          *)
(***************************************************************************)
\* C1: in a session whose loaded history had at most HistoryCap entries, the
\* in-memory history never exceeds HistoryCap entries and is, in order, the last
\* min(n, HistoryCap) of the loaded entries followed by everything saved since.
C1_HistoryIsLastSamples ==
    session.status = "running" =>
        /\ Len(metrics_history) <= HistoryCap
        /\ Len(metrics_history) = IF Len(appended) < HistoryCap THEN Len(appended)
                                  ELSE HistoryCap
        /\ \A i \in 1..Len(metrics_history) :
               metrics_history[i] = appended[Len(appended) - Len(metrics_history) + i]

\* a save that evicted: more was appended than the cap holds
C1_Witness ==
    /\ ret.op = "save"
    /\ Len(appended) > HistoryCap
    /\ Len(metrics_history) = HistoryCap

\* C2: after a save the file holds exactly the in-memory history, at most
\* HistoryCap entries, and whatever a load returns afterwards (in this session or
\* at the start of the next) is exactly that sequence.
C2_SaveLoadRoundTrip ==
    /\ ret.op = "save" =>
           /\ metrics_file.exists /\ JsonParses(metrics_file.doc)
           /\ Len(metrics_file.doc[2]) <= HistoryCap
           /\ load_metrics_history.outcome = "return"
           /\ load_metrics_history.value = metrics_history
    /\ (ret.op = "load" /\ ret.outcome = "return" /\ clock > 0) =>
           ret.value = metrics_history

\* the next session loaded what this run saved
C2_Witness ==
    /\ ret.op = "load"
    /\ session.number = 2
    /\ ret.value # <<>>
    /\ Get(Last(ret.value), "timestamp") > 0

\* C3: load_metrics_history returns, and returns the empty list both without a
\* file and with a file that does not parse.
C3_LoadNeverFails ==
    ret.op = "load" =>
        /\ ret.outcome = "return"
        /\ (~metrics_file.exists \/ ~JsonParses(metrics_file.doc)) => ret.value = <<>>

\* C4: a train_anomaly_model call on fewer than min_samples_for_training samples
\* reports "not enough data" and leaves scaler and model as they were.
C4_SmallBatchFitsNothing ==
    [][(ret'.op = "train" /\ ret'.batch < config.min_samples_for_training) =>
          /\ ret'.outcome = "not_enough_data"
          /\ scaler' = scaler
          /\ model' = model]_vars

\* a rejected batch, with an earlier fit still in place
C4_Witness ==
    /\ ret.op = "train"
    /\ ret.outcome = "not_enough_data"
    /\ ret.batch < config.min_samples_for_training
    /\ model.fitted /\ scaler.fitted

\* line 220: what detect_anomalies returns without a model
NotReady == [is_anomaly |-> FALSE, score |-> 0]

\* C5: no verdict of a trained model is the value returned without a model.
C5_NotReadyIsDistinguished ==
    (ret.op = "detect" /\ ret.outcome = "return" /\ model.fitted) =>
        [is_anomaly |-> ret.is_anomaly, score |-> ret.score] # NotReady

\* C6: with min_samples_for_training - 1 samples the fit reports "not enough
\* data" and the model stays untrained; with the history at exactly
\* min_samples_for_training the fit succeeds and detect returns a verdict.
C6_FitSucceedsAtMinSamples ==
    /\ (ret.op = "train" /\ ret.batch = config.min_samples_for_training - 1) =>
           ret.outcome = "not_enough_data"
    /\ (ret.op = "train" /\ ret.batch = config.min_samples_for_training) =>
           /\ ret.outcome = "trained"
           /\ model.fitted
           /\ current_metrics # <<>> => detect_anomalies(current_metrics).outcome = "return"

\* C7: a sample whose metric keys are not the keys of the fit never gets a verdict.
C7_MismatchIsSurfaced ==
    (ret.op = "detect" /\ model.fitted
        /\ Range(NumericColumns(Keys(current_metrics))) # Range(fit_columns)) =>
        ret.outcome # "return"

(***************************************************************************)
(* The claims about the query analyzer.                                    *)
(***************************************************************************)
\* C8: an analysis carries exactly one severity of low, medium, high and
\* critical: critical iff execution_time > 5.0 s or rows_examined > 5,000,000;
\* otherwise high iff execution_time > 2.0 s or rows_examined > 1,000,000;
\* otherwise medium iff execution_time > 1.0 s or rows_examined > 100,000;
\* otherwise low.  The comparisons are strict: a value on a breakpoint is in
\* the lower severity.  (Times in tenths of a second.)
C8_SeverityFollowsTable ==
    analysis.done =>
        LET t        == query_data.execution_time
            r        == query_data.rows_examined
            critical == t > 50 \/ r > 5000000
            high     == t > 20 \/ r > 1000000
            medium   == t > 10 \/ r > 100000
        IN  /\ analysis.severity \in {"low", "medium", "high", "critical"}
            /\ (analysis.severity = "critical") <=> critical
            /\ (analysis.severity = "high") <=> (~critical /\ high)
            /\ (analysis.severity = "medium") <=> (~critical /\ ~high /\ medium)
            /\ (analysis.severity = "low") <=> (~critical /\ ~high /\ ~medium)
            /\ (t = 50 /\ r <= 5000000) => analysis.severity = "high"
            /\ (t <= 20 /\ r = 1000000) => analysis.severity = "medium"
            /\ (t = 10 /\ r <= 100000) => analysis.severity = "low"

\* a record on the critical breakpoint of both measures is analysed as high
C8_Witness ==
    /\ analysis.done
    /\ query_data.execution_time = 50
    /\ query_data.rows_examined = 5000000
    /\ analysis.severity = "high"

Rank(severity) ==
    CASE severity = "low"      -> 0
      [] severity = "medium"   -> 1
      [] severity = "high"     -> 2
      [] severity = "critical" -> 3

\* q differs from the analysed record only by a larger execution_time
SlowerOnly(q) ==
    /\ q = [query_data EXCEPT !.execution_time = q.execution_time]
    /\ q.execution_time > query_data.execution_time

\* q differs from the analysed record only by a larger rows_examined
MoreRowsOnly(q) ==
    /\ q = [query_data EXCEPT !.rows_examined = q.rows_examined]
    /\ q.rows_examined > query_data.rows_examined

\* C9: severity is monotonic: a record that differs from the analysed one only
\* by a larger execution_time, or only by a larger rows_examined, is analysed
\* with a severity rank (low < medium < high < critical) that is not lower.
C9_SeverityIsMonotonic ==
    analysis.done =>
        \A q \in QueryRecords :
            (SlowerOnly(q) \/ MoreRowsOnly(q)) =>
                Rank(analyze_query_performance(q).severity) >= Rank(analysis.severity)

\* a low record with a slower twin that is critical and a larger twin that is high
C9_Witness ==
    /\ analysis.done
    /\ analysis.severity = "low"
    /\ \E q \in QueryRecords :
           SlowerOnly(q) /\ analyze_query_performance(q).severity = "critical"
    /\ \E q \in QueryRecords :
           MoreRowsOnly(q) /\ analyze_query_performance(q).severity = "high"

\* the patterns of category i that match the text, case-insensitively
MatchingPatterns(i, query) ==
    {j \in 1..Len(query_patterns[i]) : re_search(query_patterns[i][j], query, TRUE)}

\* C10: each of the four categories is in the issues of an analysis iff at
\* least one of its patterns matches the query text case-insensitively,
\* whatever the other categories do; no category is listed twice, however
\* many of its patterns match; a text that matches no pattern is analysed
\* with no issues.
C10_IssuesAreMatchingCategories ==
    analysis.done =>
        /\ Range(analysis.issues) \subseteq Range(IssueTypes)
        /\ \A i \in 1..Len(IssueTypes) :
               (IssueTypes[i] \in Range(analysis.issues))
                   <=> MatchingPatterns(i, query_data.query) # {}
        /\ Cardinality(Range(analysis.issues)) = Len(analysis.issues)
        /\ (\A i \in 1..Len(IssueTypes) : MatchingPatterns(i, query_data.query) = {})
               => analysis.issues = <<>>

\* a lower-case text that two patterns of one category match: listed once
C10_Witness ==
    /\ analysis.done
    /\ query_data.query = QueryLowerCase
    /\ Cardinality(MatchingPatterns(1, query_data.query)) = 2
    /\ analysis.issues = <<"missing_index">>

\* the recommendations of category c, if it is among the issues
RecsIf(c, recs) == IF c \in Range(analysis.issues) THEN recs ELSE <<>>

\* C11: the recommendations of an analysis are the two canned texts of each
\* detected category, in the order missing_index, full_table_scan,
\* inefficient_joins, subquery_issues, then the low-selectivity text iff
\* efficiency_ratio < 0.01, then the immediate-optimization text iff
\* execution_time > 2.0 s, with or without a detected category; no text
\* occurs twice.
C11_RecommendationList ==
    analysis.done =>
        /\ analysis.recommendations =
               RecsIf("missing_index", IssueRecommendations[1])
               \o RecsIf("full_table_scan", IssueRecommendations[2])
               \o RecsIf("inefficient_joins", IssueRecommendations[3])
               \o RecsIf("subquery_issues", IssueRecommendations[4])
               \o (IF analysis.efficiency_ratio[1] * 100 < analysis.efficiency_ratio[2]
                   THEN <<LowEfficiencyRecommendation>> ELSE <<>>)
               \o (IF analysis.execution_time > 20
                   THEN <<SlowRecommendation>> ELSE <<>>)
        /\ Cardinality(Range(analysis.recommendations)) = Len(analysis.recommendations)

\* a slow, unselective query with no detected category gets both heuristics
C11_Witness ==
    /\ analysis.done
    /\ analysis.issues = <<>>
    /\ analysis.execution_time > 20
    /\ analysis.recommendations = <<LowEfficiencyRecommendation, SlowRecommendation>>

\* equality of two fractions <<num, den>>
SameFraction(f, g) ==
    IF f[2] = g[2] THEN f[1] = g[1] ELSE f[1] * g[2] = g[1] * f[2]

\* C12: the efficiency_ratio of an analysis is rows_sent / max(rows_examined, 1):
\* with rows_examined = 0 it is rows_sent / 1.
C12_RatioUsesFlooredDenominator ==
    analysis.done =>
        SameFraction(analysis.efficiency_ratio,
                     <<query_data.rows_sent, FlooredAtOne(query_data.rows_examined)>>)

\* C13: the efficiency_ratio of every analysis lies in [0, 1], also when
\* rows_sent is greater than rows_examined.
C13_RatioWithinUnitInterval ==
    analysis.done =>
        /\ analysis.efficiency_ratio[2] > 0
        /\ 0 <= analysis.efficiency_ratio[1]
        /\ analysis.efficiency_ratio[1] <= analysis.efficiency_ratio[2]

\* C14 (Scenario A): the equality filter on a literal, with execution_time
\* 0.5 s, rows_examined 1,000,000 and rows_sent 1, is analysed with issues
\* exactly {missing_index}, severity medium, efficiency_ratio 1/1,000,000 and
\* the index-creation recommendation.
C14_ScenarioA ==
    (/\ analysis.done
     /\ query_data.query = QueryScenarioA
     /\ query_data.execution_time = 5
     /\ query_data.rows_examined = 1000000
     /\ query_data.rows_sent = 1)
    => /\ Range(analysis.issues) = {"missing_index"}
       /\ analysis.severity = "medium"
       /\ SameFraction(analysis.efficiency_ratio, <<1, 1000000>>)
       /\ IssueRecommendations[1][1] \in Range(analysis.recommendations)

\* C15: a record whose execution_time, rows_examined and rows_sent are zero
\* or missing, and whose text matches no pattern, is analysed without an
\* exception, with severity low and no recommendations.
C15_DegenerateRecordIsLowAndSilent ==
    query_data \in DegenerateRecords =>
        /\ analysis.done
        /\ analysis.severity = "low"
        /\ analysis.recommendations = <<>>

(***************************************************************************)
(* The claims about the query summary.                                     *)
(***************************************************************************)
\* C16: the summary of an empty list of analyses is returned, not raised, with
\* every count, the slow-query percentage, the average execution time and the
\* row totals zero and no issue counts.
C16_EmptySummaryIsZero ==
    ((summary.done \/ summary.raised) /\ analyses = <<>>) =>
        /\ summary.done
        /\ summary.total_queries = 0
        /\ summary.slow_queries = 0
        /\ summary.critical_queries = 0
        /\ summary.high_priority_queries = 0
        /\ SameFraction(summary.slow_query_percentage, <<0, 1>>)
        /\ SameFraction(summary.avg_execution_time, <<0, 1>>)
        /\ summary.total_rows_examined = 0
        /\ summary.total_rows_sent = 0
        /\ summary.issue_counts = <<>>

\* the summary of the empty list has been returned
C16_Witness ==
    /\ summary.done
    /\ analyses = <<>>
    /\ summary.total_queries = 0

\* every list of up to MaxQueries analyses of the report records
ReportAnalyses == {analyze_query_performance(q) : q \in ReportRecords}

AnalysisLists == UNION {[1..n -> ReportAnalyses] : n \in 0..MaxQueries}

\* the reorderings of a list
Reorderings(as) ==
    {[i \in 1..Len(as) |-> as[p[i]]] :
        p \in {f \in [1..Len(as) -> 1..Len(as)] : \A i, j \in 1..Len(as) : f[i] = f[j] => i = j}}

\* equality of two summaries as Python dicts: issue_counts compared as a mapping
SameSummary(a, b) ==
    /\ [a EXCEPT !.issue_counts = <<>>] = [b EXCEPT !.issue_counts = <<>>]
    /\ Range(a.issue_counts) = Range(b.issue_counts)

SeverityLevels == {"low", "medium", "high", "critical"}

\* C17: the summary of a list of analyses gives the number of results of each
\* severity level (so lists with the same summary have the same number of
\* results at every level), for each issue category the number of results
\* carrying it, slow_query_percentage = 100 * (number with execution_time >
\* 2.0 s) / total, the mean execution time and the sums of rows_examined and
\* rows_sent, and is the same for every reordering of the list.
C17_SummaryIsReduction ==
    summary.done =>
        /\ \A other \in AnalysisLists :
               SameSummary(generate_query_summary(other), summary) =>
                   \A level \in SeverityLevels :
                       CountIf(other, LAMBDA a : a.severity = level)
                           = CountIf(analyses, LAMBDA a : a.severity = level)
        /\ \A c \in Range(IssueTypes) :
               LET carrying == CountIf(analyses, LAMBDA a : c \in Range(a.issues))
               IN  IF carrying = 0
                   THEN \A k \in 1..Len(summary.issue_counts) : summary.issue_counts[k][1] # c
                   ELSE <<c, carrying>> \in Range(summary.issue_counts)
        /\ Len(analyses) > 0 =>
               /\ SameFraction(summary.slow_query_percentage,
                               <<100 * CountIf(analyses, LAMBDA a : a.execution_time > 20),
                                 Len(analyses)>>)
               /\ SameFraction(summary.avg_execution_time,
                               <<SeqSum([i \in 1..Len(analyses) |-> analyses[i].execution_time]),
                                 Len(analyses)>>)
        /\ summary.total_rows_examined
               = SeqSum([i \in 1..Len(analyses) |-> analyses[i].rows_examined])
        /\ summary.total_rows_sent
               = SeqSum([i \in 1..Len(analyses) |-> analyses[i].rows_sent])
        /\ \A reordered \in Reorderings(analyses) :
               SameSummary(generate_query_summary(reordered), summary)

SnapshotFields ==
    {"total_queries", "slow_queries", "critical_issues", "avg_execution_time",
     "queries", "timestamp"}

\* C18: after every run of analyze_multiple_queries, whatever the batch (one
\* query, no critical issue, no query at all), recent_analysis.json has been
\* written by that run: it has the fields total_queries, slow_queries,
\* critical_issues, avg_execution_time, queries and timestamp, total_queries
\* is the number of entries of queries and the size of the batch, slow_queries
\* and critical_issues are at most total_queries, and the entries of queries
\* are those of this batch, not of an earlier one.
C18_SnapshotFollowsEveryBatch ==
    ret.op = "analyze_multiple_queries" =>
        /\ recent_analysis.exists
        /\ DOMAIN recent_analysis.data = SnapshotFields
        /\ recent_analysis.data.total_queries = Len(recent_analysis.data.queries)
        /\ recent_analysis.data.total_queries = ret.batch
        /\ recent_analysis.data.slow_queries <= recent_analysis.data.total_queries
        /\ recent_analysis.data.critical_issues <= recent_analysis.data.total_queries
        /\ \A i \in 1..ret.batch :
               /\ recent_analysis.data.queries[i].query = ret.value[i].query
               /\ recent_analysis.data.queries[i].severity = ret.value[i].severity

(***************************************************************************)
(* The claims about the anomaly verdicts.                                  *)
(***************************************************************************)
\* the batch of the fit that has just returned
FittedBatch == Tail_n(metrics_history, ret.batch)

\* the scaler a fit of the batch leaves, computed from the batch alone
ScalerOfBatch(X) ==
    [fitted |-> TRUE, n_features_in |-> Len(X[1]),
     stats |-> [c \in 1..Len(X[1]) |-> ColumnStats(X, c)]]

\* the verdict on sample x of a forest fitted on X with the configured
\* random_state and contamination, computed from (config, X, x) alone
VerdictOfBatch(X, x) ==
    LET sc     == ScalerOfBatch(X)
        forest == ForestFit(NewForest(config), [i \in 1..Len(X) |-> ScalerTransform(sc, X[i])])
        z      == ScalerTransform(sc, x)
    IN  Verdict(decision_function(forest, z) < 0, decision_function(forest, z))

\* the values of sample x as detect_anomalies takes them (lines 222-223)
SampleValues(x) ==
    [c \in 1..Len(NumericColumns(Keys(x))) |-> Get(x, NumericColumns(Keys(x))[c])]

\* C19: after a fit the scaler, the model and the verdict on any sample are
\* those given by the configured random_state and contamination and the batch
\* alone: they are the same however often the fit is repeated and whatever
\* was fitted before.
C19_FitIsDeterministic ==
    (ret.op = "train" /\ ret.outcome = "trained") =>
        LET X == Matrix(FittedBatch, fit_columns)
        IN  /\ scaler = ScalerOfBatch(X)
            /\ model.random_state = config.random_state
            /\ model.contamination = config.contamination
            /\ \A x \in Range(FittedBatch) \cup ({current_metrics} \ {<<>>}) :
                   detect_anomalies(x).outcome = "return"
                       => detect_anomalies(x) = VerdictOfBatch(X, SampleValues(x))

\* a fit on a batch larger than the smallest one that can be fitted, with a
\* collected sample to give a verdict on
C19_Witness ==
    /\ ret.op = "train"
    /\ ret.outcome = "trained"
    /\ ret.batch > config.min_samples_for_training
    /\ current_metrics # <<>>
    /\ detect_anomalies(current_metrics).outcome = "return"

\* C20: in every verdict of a trained model is_anomaly is true iff the score
\* is below 0.
C20_VerdictAgreesWithScore ==
    (ret.op = "detect" /\ ret.outcome = "return" /\ model.fitted) =>
        (ret.is_anomaly <=> ret.score < 0)

\* a trained model has reported an anomaly
C20_Witness ==
    /\ ret.op = "detect"
    /\ ret.outcome = "return"
    /\ model.fitted
    /\ ret.is_anomaly
    /\ ret.score < 0

(***************************************************************************)
(* The claims about the life of the model and the scaler.                  *)
(***************************************************************************)
\* line 218: detect_anomalies takes the tool as trained when self.model is set
TreatedAsTrained == ~model.is_none

\* C22: a tool starts without a model; the model is set only by a
\* train_anomaly_model call that fitted at least min_samples_for_training
\* samples; no call leaves a model that detect_anomalies takes as trained and
\* that was not fitted; a tool that has a model keeps one.
C22_ModelLifecycle ==
    /\ model.is_none
    /\ [][/\ session'.number # session.number => model'.is_none
          /\ (session'.number = session.number /\ model.is_none /\ ~model'.is_none) =>
                 /\ ret'.op = "train"
                 /\ ret'.outcome = "trained"
                 /\ ret'.batch >= config.min_samples_for_training
          /\ TreatedAsTrained' => model'.fitted
          /\ (session'.number = session.number /\ ~model.is_none) => ~model'.is_none]_vars

\* the pair a fit of the batch of the call leaves when it succeeds
NewPair ==
    FitPipeline(Matrix(training.metrics_data, TrainingColumns), TrainingColumns)

\* C23: from the moment train_anomaly_model is called on a trained tool, and
\* after it has returned or raised, the scaler and the model are either both
\* the ones the call found or both the ones fitted on the call's batch.
C23_RefitIsAtomicSwap ==
    (training.pc # "idle" /\ ret.op = "train"
        /\ training.scaler.fitted /\ training.model.fitted) =>
        \/ scaler = training.scaler /\ model = training.model
        \/ /\ NewPair.outcome = "trained"
           /\ scaler = NewPair.scaler
           /\ model = NewPair.model

\* C24: every sample of a batch that train_anomaly_model accepts has the same
\* keys, and they are the configured enabled metrics and 'timestamp'.
C24_BatchHasConfiguredKeys ==
    (ret.op = "train" /\ ret.outcome # "not_enough_data") =>
        \A i \in 1..Len(FittedBatch) :
            KeySet(FittedBatch[i]) = Range(config.enabled) \cup {"timestamp"}

\* C25: when detect_anomalies scores a sample that has the metrics of the fit,
\* position i of the vector it builds holds the metric of column i of the
\* training matrix, whatever the order of the sample's keys.
C25_FeatureOrderIsTheFitOrder ==
    (ret.op = "detect" /\ ret.outcome = "return" /\ model.fitted
        /\ Range(NumericColumns(Keys(current_metrics))) = Range(fit_columns)) =>
        \A i \in 1..Len(fit_columns) :
            NumericColumns(Keys(current_metrics))[i] = fit_columns[i]

\* C26: detect_anomalies changes neither the scaler, nor the model, nor the
\* history, nor its file; train_anomaly_model changes neither the history nor
\* its file; within a session only save_metrics changes them, by appending
\* the sample and trimming.
C26_PipelineFrame ==
    [][/\ ret'.op = "detect" =>
              /\ scaler' = scaler
              /\ model' = model
              /\ metrics_history' = metrics_history
              /\ metrics_file' = metrics_file
       /\ ret'.op = "train" =>
              /\ metrics_history' = metrics_history
              /\ metrics_file' = metrics_file
       /\ (session'.number = session.number /\ metrics_history' # metrics_history) =>
              /\ ret'.op = "save"
              /\ metrics_history' = AppendTrim(metrics_history, current_metrics)
       /\ metrics_file' # metrics_file => ret'.op = "save"]_vars

\* a verdict of a trained model, then another one, with the history in place
C26_Witness ==
    /\ ret.op = "detect"
    /\ ret.outcome = "return"
    /\ scaler.fitted
    /\ model.fitted
    /\ Len(metrics_history) >= config.min_samples_for_training
    /\ metrics_file = FileOf(json_dump(metrics_history))

(***************************************************************************)
(* The claims about the slow flag and the two summaries.                   *)
(***************************************************************************)
\* C27: in every analysis is_slow is true iff execution_time is above 2.0 s,
\* the slow_query_threshold; a slow query has severity high or critical, so
\* one of severity low or medium is not slow; and the recommendation of
\* immediate optimization is in the list iff is_slow.
C27_SlowFlagIsConsistent ==
    analysis.done =>
        /\ analysis.is_slow <=> query_data.execution_time > slow_query_threshold
        /\ analysis.is_slow => analysis.severity \in {"high", "critical"}
        /\ analysis.severity \in {"low", "medium"} => ~analysis.is_slow
        /\ SlowRecommendation \in Range(analysis.recommendations) <=> analysis.is_slow

\* a query on the threshold that is not slow, though its rows make it high
C27_Witness ==
    /\ analysis.done
    /\ query_data.execution_time = slow_query_threshold
    /\ ~analysis.is_slow
    /\ analysis.severity = "high"
    /\ SlowRecommendation \notin Range(analysis.recommendations)

\* C28: the summary analyze_queries builds for a list of analyses is defined,
\* also for the empty list, and has the total_queries, slow_queries,
\* critical_queries, high_priority_queries, slow_query_percentage,
\* avg_execution_time, total_rows_examined and total_rows_sent that
\* generate_query_summary returns for the list.
C28_SummariesAgree ==
    (ret.op = "analyze_queries" /\ summary.done) =>
        /\ ret.outcome = "return"
        /\ ret.value.total_queries = summary.total_queries
        /\ ret.value.slow_queries = summary.slow_queries
        /\ ret.value.critical_queries = summary.critical_queries
        /\ ret.value.high_priority_queries = summary.high_priority_queries
        /\ SameFraction(ret.value.slow_query_percentage, summary.slow_query_percentage)
        /\ SameFraction(ret.value.avg_execution_time, summary.avg_execution_time)
        /\ ret.value.total_rows_examined = summary.total_rows_examined
        /\ ret.value.total_rows_sent = summary.total_rows_sent

(***************************************************************************)
(* The claims about a run of main.                                         *)
(***************************************************************************)
\* the run has passed the test of line 586
PastAnalyzeTest ==
    "analyze" \in run.args /\ run.saves >= 1 /\ run.pc \in {"detect", "done", "crashed"}

\* C29: in the --analyze flow the sample is collected, saved, then the model
\* is trained, then the sample is scored: when detect_anomalies is called the
\* sample is the last element of the history and of the batch of the
\* train_anomaly_model call before it; the training is called in every run
\* whose history has reached min_samples_for_training at line 586, and
\* otherwise nothing is trained or scored and the message is printed.
C29_AnalyzeFlowOrder ==
    /\ (run.pc = "detect" \/ run.scored) =>
           /\ run.trained
           /\ run.batch = metrics_history
           /\ run.batch # <<>>
           /\ Last(run.batch) = current_metrics
    /\ run.trained =>
           /\ run.saves >= 1
           /\ Saved(current_metrics)
           /\ Len(run.batch) >= config.min_samples_for_training
    /\ PastAnalyzeTest =>
           IF Len(metrics_history) >= config.min_samples_for_training
           THEN run.trained /\ ~run.message
           ELSE ~run.trained /\ ~run.scored /\ run.message

\* an --analyze run whose sample brought the history to the required size,
\* trained on it and scored the sample
C29_Witness ==
    /\ run.args = {"analyze"}
    /\ run.pc = "done"
    /\ run.scored
    /\ ret.op = "detect"
    /\ ret.outcome = "return"
    /\ Len(run.batch) = config.min_samples_for_training
    /\ run.saves = 1

\* the run has ended: main returned, or an exception or sys.exit ended it
RunEnded == run.pc \in {"done", "crashed", "exit"}

\* the run does one of the commands of lines 511-550
ReturnsEarly ==
    run.args \cap EarlyCommands # {} \/ run.args \cap {"monitor", "analyze"} = {}

\* C30: a run with --config, --show-history, --analyze-queries,
\* --query-report, --ask, --ai-analysis or --select-database, or without an
\* action flag, calls save_metrics never and leaves the history and its file
\* as they were; a run with --analyze alone appends exactly one sample, a run
\* with --monitor exactly 101; and no appended sample is empty.
C30_CommandsAndHistory ==
    /\ [](/\ (run.pc # "none" /\ ReturnsEarly) =>
                 run.saves = 0 /\ metrics_history = appended
          /\ (RunEnded /\ run.args = {"analyze"}) => run.saves = 1
          /\ (RunEnded /\ "monitor" \in run.args /\ ~ReturnsEarly) =>
                 run.saves = MonitorSamples + 1
          /\ run.saves <= Len(appended)
          /\ \A k \in (Len(appended) - run.saves + 1)..Len(appended) :
                 appended[k] # <<>>)
    /\ [][(run.pc # "none" /\ ReturnsEarly) =>
              /\ metrics_file' = metrics_file
              /\ metrics_history' = metrics_history]_vars

====
